---- MODULE Spec2Model ----
(***************************************************************************)
(* String analyzer service (src/server.js): the analyzer, the Express      *)
(* routes and their handlers, and the MongoDB collection behind them.      *)
(*                                                                         *)
(* A JavaScript string is a sequence of UTF-16 code units; a code unit is  *)
(* written as a one-character TLA+ string, and the two halves of the       *)
(* surrogate pair of U+1F600 as "D83D" and "DE00".                         *)
(***************************************************************************)
EXTENDS Integers, Sequences, FiniteSets, TLC

VARIABLES
    StringModel,   \* the MongoDB collection: a set of documents
    clock,         \* the latest reading of Date.now(), in milliseconds
    task,          \* per connection: the POST /strings handler between its awaits
    last,          \* the step just taken: the request answered and its response
    call           \* a helper function called on its own: its argument and result

vars == <<StringModel, clock, task, last, call>>

(***************************************************************************)
(* Bounds of the model.                                                    *)
(***************************************************************************)
MaxDocs == 2       \* documents the collection holds at most
MaxClock == 1      \* the latest reading of the clock at most

\* the connections a POST /strings can be in flight on: two at once
Conn == {1, 2}

(***************************************************************************)
(* Code units and strings.                                                 *)
(***************************************************************************)
HighSurrogate == {"D83D"}
LowSurrogate == {"DE00"}

UpperCase == 
    <<"A", "B", "C", "D", "E", "F", "G", "H", "I", "J", "K", "L", "M", "N",
     "O", "P", "Q", "R", "S", "T", "U", "V", "W", "X", "Y", "Z">>

LowerCase == 
    <<"a", "b", "c", "d", "e", "f", "g", "h", "i", "j", "k", "l", "m", "n",
     "o", "p", "q", "r", "s", "t", "u", "v", "w", "x", "y", "z">>

\* String.prototype.toLowerCase, per code unit
toLowerCase(str) ==
    [i \in 1..Len(str) |->
        IF \E k \in 1..Len(UpperCase) : UpperCase[k] = str[i]
        THEN LowerCase[CHOOSE k \in 1..Len(UpperCase) : UpperCase[k] = str[i]]
        ELSE str[i]]

\* the regular expression class \s
IsWhitespace(c) == c \in {" ", "\t", "\n"}

\* the regular expression class \d
IsDigit(c) == c \in {"0", "1", "2", "3", "4", "5", "6", "7", "8", "9"}

RECURSIVE removeWhitespace(_)
\* str.replace(/\s/g, '')
removeWhitespace(str) ==
    IF str = <<>> THEN <<>>
    ELSE IF IsWhitespace(Head(str)) THEN removeWhitespace(Tail(str))
    ELSE <<Head(str)>> \o removeWhitespace(Tail(str))

\* str.split('').reverse().join(''): reverses the code units
reverse(str) == [i \in 1..Len(str) |-> str[Len(str) + 1 - i]]

RECURSIVE codePoints(_)
\* the string iterator (for..of, new Set(str)): one element per code point,
\* a surrogate pair taken together, a lone surrogate alone
codePoints(str) ==
    IF str = <<>> THEN <<>>
    ELSE IF Len(str) >= 2 /\ str[1] \in HighSurrogate /\ str[2] \in LowSurrogate
         THEN <<SubSeq(str, 1, 2)>> \o codePoints(SubSeq(str, 3, Len(str)))
         ELSE <<SubSeq(str, 1, 1)>> \o codePoints(Tail(str))

RECURSIVE trimStart(_)
trimStart(str) ==
    IF str # <<>> /\ IsWhitespace(Head(str)) THEN trimStart(Tail(str)) ELSE str

\* String.prototype.trim
trim(str) == reverse(trimStart(reverse(trimStart(str))))

RECURSIVE splitFrom(_, _)
\* the tokens of str.split(/\s+/), cur being the token under construction
splitFrom(str, cur) ==
    IF str = <<>> THEN <<cur>>
    ELSE IF IsWhitespace(Head(str))
         THEN <<cur>> \o splitFrom(trimStart(str), <<>>)
         ELSE splitFrom(Tail(str), Append(cur, Head(str)))

\* str.split(/\s+/)
splitWhitespace(str) == splitFrom(str, <<>>)

\* the characters of one UTF-8 byte that the model uses, and their bytes in hex
Ascii ==
    <<"a", "b", "c", "d", "e", "f", "g", "h", "i", "j", "k", "l", "m",
      "n", "o", "p", "q", "r", "s", "t", "u", "v", "w", "x", "y", "z",
      "A", "B", "C", "D", "E", "F", "G", "H", "I", "J", "K", "L", "M",
      "N", "O", "P", "Q", "R", "S", "T", "U", "V", "W", "X", "Y", "Z",
      "0", "1", "2", "3", "4", "5", "6", "7", "8", "9", " ", "%", "/",
      ".", "-", "_">>

AsciiHex ==
    <<<<"6", "1">>, <<"6", "2">>, <<"6", "3">>, <<"6", "4">>, <<"6", "5">>, <<"6", "6">>, <<"6", "7">>,
      <<"6", "8">>, <<"6", "9">>, <<"6", "a">>, <<"6", "b">>, <<"6", "c">>, <<"6", "d">>, <<"6", "e">>,
      <<"6", "f">>, <<"7", "0">>, <<"7", "1">>, <<"7", "2">>, <<"7", "3">>, <<"7", "4">>, <<"7", "5">>,
      <<"7", "6">>, <<"7", "7">>, <<"7", "8">>, <<"7", "9">>, <<"7", "a">>, <<"4", "1">>, <<"4", "2">>,
      <<"4", "3">>, <<"4", "4">>, <<"4", "5">>, <<"4", "6">>, <<"4", "7">>, <<"4", "8">>, <<"4", "9">>,
      <<"4", "a">>, <<"4", "b">>, <<"4", "c">>, <<"4", "d">>, <<"4", "e">>, <<"4", "f">>, <<"5", "0">>,
      <<"5", "1">>, <<"5", "2">>, <<"5", "3">>, <<"5", "4">>, <<"5", "5">>, <<"5", "6">>, <<"5", "7">>,
      <<"5", "8">>, <<"5", "9">>, <<"5", "a">>, <<"3", "0">>, <<"3", "1">>, <<"3", "2">>, <<"3", "3">>,
      <<"3", "4">>, <<"3", "5">>, <<"3", "6">>, <<"3", "7">>, <<"3", "8">>, <<"3", "9">>, <<"2", "0">>,
      <<"2", "5">>, <<"2", "f">>, <<"2", "e">>, <<"2", "d">>, <<"5", "f">>>>

\* the byte of each of these characters
AsciiByte ==
    [c \in {Ascii[k] : k \in 1..Len(Ascii)} |->
        AsciiHex[CHOOSE k \in 1..Len(Ascii) : Ascii[k] = c]]

\* the hex digits of the UTF-8 bytes of one code point; a lone surrogate is
\* encoded as U+FFFD
utf8(cp) ==
    IF cp = <<"D83D", "DE00">> THEN <<"f", "0", "9", "f", "9", "8", "8", "0">>
    ELSE IF cp[1] \in DOMAIN AsciiByte THEN AsciiByte[cp[1]]
    ELSE <<"e", "f", "b", "f", "b", "d">>

RECURSIVE hexOfBytes(_)
hexOfBytes(cps) ==
    IF cps = <<>> THEN <<>> ELSE utf8(Head(cps)) \o hexOfBytes(Tail(cps))

\* crypto.createHash('sha256').update(str).digest('hex').  The digest is a
\* function of the UTF-8 bytes of str; it is written here as the hex digits of
\* those bytes, which, like SHA-256 for all practical purposes, is injective
\* on byte strings.
sha256Hex(str) == <<"s", "h", "a", ":">> \o hexOfBytes(codePoints(str))

ToSet(seq) == {seq[i] : i \in 1..Len(seq)}

\* the for..of loop filling charFreqMap: every code point with its count
charFreqMapOf(str) ==
    LET cps == codePoints(str)
    IN  [c \in ToSet(cps) |-> Cardinality({i \in 1..Len(cps) : cps[i] = c})]

computeProperties(str) ==
    LET sha256 == sha256Hex(str)
        normalized == removeWhitespace(toLowerCase(str))
        isPalindrome == (normalized = reverse(normalized))
        uniqueChars == Cardinality(ToSet(codePoints(str)))
        wordCount == Len(SelectSeq(splitWhitespace(trim(str)), LAMBDA w : Len(w) > 0))
    IN  [length |-> Len(str),
         is_palindrome |-> isPalindrome,
         unique_characters |-> uniqueChars,
         word_count |-> wordCount,
         sha256_hash |-> sha256,
         character_frequency_map |-> charFreqMapOf(str)]

(***************************************************************************)
(* URI components.                                                         *)
(***************************************************************************)
\* the characters encodeURIComponent leaves as they are
Unreserved == ToSet(Ascii) \ {" ", "%", "/"}

upperHex(seq) ==
    [i \in 1..Len(seq) |->
        CASE seq[i] = "a" -> "A" [] seq[i] = "b" -> "B" [] seq[i] = "c" -> "C"
          [] seq[i] = "d" -> "D" [] seq[i] = "e" -> "E" [] seq[i] = "f" -> "F"
          [] OTHER -> seq[i]]

RECURSIVE percentBytes(_)
\* %XX for every byte, the bytes given as a sequence of hex digits
percentBytes(hex) ==
    IF hex = <<>> THEN <<>>
    ELSE <<"%", hex[1], hex[2]>> \o percentBytes(SubSeq(hex, 3, Len(hex)))

RECURSIVE encodeCodePoints(_)
encodeCodePoints(cps) ==
    IF cps = <<>> THEN <<>>
    ELSE (IF Len(Head(cps)) = 1 /\ Head(cps)[1] \in Unreserved
          THEN Head(cps)
          ELSE percentBytes(upperHex(utf8(Head(cps)))))
         \o encodeCodePoints(Tail(cps))

\* encodeURIComponent, as a client applies it to put a value in the path
encodeURIComponent(str) == encodeCodePoints(codePoints(str))

\* the one-byte characters a %XX escape stands for
EscapedChar == {<<c, upperHex(utf8(<<c>>))>> : c \in ToSet(Ascii)}

URIError == <<"URIError">>

RECURSIVE decodeURIComponent(_)
\* decodeURIComponent: every %XX escape replaced by its character; URIError
\* when a % is not followed by an escape.  (Escapes of bytes outside Ascii are
\* outside the model and count as malformed.)
decodeURIComponent(str) ==
    IF str = <<>> THEN <<>>
    ELSE IF Head(str) # "%"
    THEN LET rest == decodeURIComponent(Tail(str))
         IN  IF rest = URIError THEN URIError ELSE <<Head(str)>> \o rest
    ELSE IF Len(str) < 3 THEN URIError
    ELSE LET hit == {p \in EscapedChar : p[2] = upperHex(SubSeq(str, 2, 3))}
             rest == decodeURIComponent(SubSeq(str, 4, Len(str)))
         IN  IF hit = {} \/ rest = URIError THEN URIError
             ELSE <<(CHOOSE p \in hit : TRUE)[1]>> \o rest

(***************************************************************************)
(* parseInt and isNaN.                                                     *)
(***************************************************************************)
NaN == [nan |-> TRUE, n |-> 0]

digitValue(c) ==
    CASE c = "0" -> 0 [] c = "1" -> 1 [] c = "2" -> 2 [] c = "3" -> 3 [] c = "4" -> 4
      [] c = "5" -> 5 [] c = "6" -> 6 [] c = "7" -> 7 [] c = "8" -> 8 [] c = "9" -> 9

RECURSIVE digitsPrefix(_, _)
\* the value of the longest prefix of decimal digits, acc so far
digitsPrefix(str, acc) ==
    IF str = <<>> \/ ~IsDigit(Head(str)) THEN acc
    ELSE digitsPrefix(Tail(str), acc * 10 + digitValue(Head(str)))

\* parseInt(str): leading white space skipped, an optional sign, then the
\* longest run of decimal digits; whatever follows the digits is ignored; NaN
\* when there is no digit
parseInt(str) ==
    LET s == trimStart(str)
        neg == s # <<>> /\ Head(s) = "-"
        body == IF s # <<>> /\ Head(s) \in {"-", "+"} THEN Tail(s) ELSE s
    IN  IF body = <<>> \/ ~IsDigit(Head(body)) THEN NaN
        ELSE [nan |-> FALSE,
              n |-> IF neg THEN 0 - digitsPrefix(body, 0) ELSE digitsPrefix(body, 0)]

isNaN(x) == x.nan

(***************************************************************************)
(* The inputs of the model.                                                *)
(***************************************************************************)
\* the strings submitted, fetched and deleted: "", "e", "e ." and "%"
Values == {<<>>, <<"e">>, <<"e", " ", ".">>, <<"%">>}

\* the "value" member of a request body as JSON.parse leaves it
JsonValues ==
    {[type |-> t, str |-> <<>>] : t \in {"undefined", "null", "number"}}
        \cup {[type |-> "string", str |-> v] : v \in Values}

NoBody == [value |-> [type |-> "undefined", str |-> <<>>]]

\* a member of req.query: <<>> when the parameter is absent, <<s>> when it is s
Absent == <<>>

NoQuery ==
    [is_palindrome |-> Absent, min_length |-> Absent, max_length |-> Absent,
     word_count |-> Absent, contains_character |-> Absent, query |-> Absent]

STRINGS == <<"s", "t", "r", "i", "n", "g", "s">>
HEALTH == <<"h", "e", "a", "l", "t", "h">>
FILTER_BY_NATURAL_LANGUAGE ==
    <<"f", "i", "l", "t", "e", "r", "-", "b", "y", "-", "n", "a", "t", "u", "r", "a", "l",
      "-", "l", "a", "n", "g", "u", "a", "g", "e">>

(***************************************************************************)
(* Express: the routes in the order app.post/app.get/app.delete register   *)
(* them; a request goes to the first route whose method and path match.    *)
(***************************************************************************)
Lit(seg) == [param |-> FALSE, lit |-> seg]
Param == [param |-> TRUE, lit |-> <<>>]

routes ==
    << [method |-> "POST", pattern |-> <<Lit(STRINGS)>>, handler |-> "PostStrings"],
       [method |-> "GET", pattern |-> <<Lit(STRINGS), Param>>, handler |-> "GetStringByValue"],
       [method |-> "GET", pattern |-> <<Lit(STRINGS)>>, handler |-> "GetStrings"],
       [method |-> "GET", pattern |-> <<Lit(STRINGS), Lit(FILTER_BY_NATURAL_LANGUAGE)>>,
        handler |-> "GetStringsByNaturalLanguage"],
       [method |-> "DELETE", pattern |-> <<Lit(STRINGS), Param>>, handler |-> "DeleteStringByValue"],
       [method |-> "GET", pattern |-> <<Lit(HEALTH)>>, handler |-> "GetHealth"] >>

\* the path without the trailing slash that non-strict routing ignores
stripTrailingSlash(path) ==
    IF path # <<>> /\ path[Len(path)] = <<>> THEN SubSeq(path, 1, Len(path) - 1) ELSE path

\* a :param matches one non-empty segment, a literal matches itself
matchesRoute(route, req) ==
    LET path == stripTrailingSlash(req.path)
    IN  /\ route.method = req.method
        /\ Len(route.pattern) = Len(path)
        /\ \A i \in 1..Len(path) :
              IF route.pattern[i].param THEN path[i] # <<>>
              ELSE path[i] = route.pattern[i].lit

Route(req) ==
    LET hits == {i \in 1..Len(routes) : matchesRoute(routes[i], req)}
    IN  IF hits = {} THEN "NoRoute"
        ELSE routes[CHOOSE i \in hits : \A j \in hits : i <= j].handler

\* req.params.string_value: Express decodes the matched segment
paramOf(req) == decodeURIComponent(req.path[2])

(***************************************************************************)
(* Mongoose and MongoDB: the stringSchema collection.                      *)
(***************************************************************************)
\* Date.prototype.toISOString of a time ms milliseconds after the start
toISOString(ms) ==
    <<"T", (ms \div 100) % 10, (ms \div 10) % 10, ms % 10, "Z">>

msOfISOString(iso) == iso[2] * 100 + iso[3] * 10 + iso[4]

\* findById looking the id up in the wrong field
findByIdInValue(coll, id) == {d \in coll : d.value = id}

findById(coll, id) == {d \in coll : d._id = id}

findOne(coll, value) == {d \in coll : d.value = value}

\* stringSchema: value is a required String, which the empty string fails
validationError(doc) == doc.value = <<>>

\* _id is the primary key, value has a unique index
duplicateKey(coll, doc) ==
    \E d \in coll : d._id = doc._id \/ d.value = doc.value

\* save into a collection that has no unique index
saveWithoutUniqueIndex(coll, doc) ==
    IF validationError(doc) THEN "ValidationError" ELSE "ok"

\* document.save(): "ValidationError", "DuplicateKey" or "ok"
save(coll, doc) ==
    IF validationError(doc) THEN "ValidationError"
    ELSE IF duplicateKey(coll, doc) THEN "DuplicateKey"
    ELSE "ok"

RECURSIVE splitOn(_, _, _)
\* str.split(sep) for a one-character separator, cur being the piece under
\* construction
splitOn(str, sep, cur) ==
    IF str = <<>> THEN <<cur>>
    ELSE IF Head(str) = sep THEN <<cur>> \o splitOn(Tail(str), sep, <<>>)
    ELSE splitOn(Tail(str), sep, Append(cur, Head(str)))

\* the field path `properties.character_frequency_map.${c}` below
\* properties.character_frequency_map: MongoDB reads every "." of a query key
\* as a path separator, those of the interpolated text included
frequencyPath(c) == splitOn(c, ".", <<>>)

\* the query document of an unfiltered find
EmptyQuery ==
    [is_palindrome |-> Absent, gte |-> Absent, lte |-> Absent,
     word_count |-> Absent, character |-> Absent]

\* the value a document has at a path below character_frequency_map: <<n>>,
\* or <<>> when the path leads nowhere (no such key, or a step into a number)
frequencyAt(doc, path) ==
    LET map == doc.properties.character_frequency_map
    IN  IF Len(path) = 1 /\ path[1] \in DOMAIN map THEN <<map[path[1]]>> ELSE <<>>

\* whether a document satisfies a query document
matches(doc, query) ==
    /\ query.is_palindrome = Absent
          \/ doc.properties.is_palindrome = query.is_palindrome[1]
    /\ query.gte = Absent \/ doc.properties.length >= query.gte[1]
    /\ query.lte = Absent \/ doc.properties.length <= query.lte[1]
    /\ query.word_count = Absent \/ doc.properties.word_count = query.word_count[1]
    /\ query.character = Absent
          \/ LET at == frequencyAt(doc, query.character[1])
             IN  at # <<>> /\ at[1] >= 1

find(coll, query) == {d \in coll : matches(d, query)}

\* the orders in which a scan of the collection can deliver a set of documents
scanOrders(docs) ==
    {scan \in [1..Cardinality(docs) -> docs] :
        \A i, j \in 1..Cardinality(docs) : i # j => scan[i] # scan[j]}

RECURSIVE insertAsc(_, _)
\* insertDesc with the comparison turned round: .sort({ created_at: 1 })
insertAsc(sorted, doc) ==
    IF sorted = <<>> THEN <<doc>>
    ELSE IF Head(sorted).created_at <= doc.created_at
         THEN <<Head(sorted)>> \o insertAsc(Tail(sorted), doc)
         ELSE <<doc>> \o sorted

RECURSIVE insertDesc(_, _)
\* doc put into a sequence sorted by created_at descending, after its equals
insertDesc(sorted, doc) ==
    IF sorted = <<>> THEN <<doc>>
    ELSE IF Head(sorted).created_at >= doc.created_at
         THEN <<Head(sorted)>> \o insertDesc(Tail(sorted), doc)
         ELSE <<doc>> \o sorted

RECURSIVE sortByCreatedAtDesc(_)
\* .sort({ created_at: -1 })
sortByCreatedAtDesc(scan) ==
    IF scan = <<>> THEN <<>>
    ELSE insertDesc(sortByCreatedAtDesc(SubSeq(scan, 1, Len(scan) - 1)), scan[Len(scan)])

(***************************************************************************)
(* Responses.                                                              *)
(***************************************************************************)
\* the JSON of one document
recordJson(doc) ==
    [id |-> doc._id, value |-> doc.value, properties |-> doc.properties,
     created_at |-> toISOString(doc.created_at)]

errorJson(message) == [error |-> message]

\* results.map(doc => ({...}))
dataJson(results) == [i \in 1..Len(results) |-> recordJson(results[i])]

NoRequest == [method |-> "", path |-> <<>>, query |-> NoQuery, body |-> NoBody]

\* no response was sent in the step just taken
NoResponse ==
    [handler |-> "", req |-> NoRequest, status |-> 0, body |-> errorJson(""),
     existing |-> FALSE]

Response(handler, req, status, body) ==
    [handler |-> handler, req |-> req, status |-> status, body |-> body,
     existing |-> FALSE]

InternalServerError(handler, req) ==
    Response(handler, req, 500, errorJson("Internal server error"))

(***************************************************************************)
(* The requests of the model.                                              *)
(***************************************************************************)
Opt(S) == {Absent} \cup {<<x>> : x \in S}

present(q) ==
    {f \in {"is_palindrome", "min_length", "max_length", "word_count", "contains_character"} :
        q[f] # Absent}

\* the query strings of GET /strings, with at most two parameters each:
\* true, false; 1, 2b; 1.5, the empty text; 1; e, E, a dot, ee
Queries ==
    {q \in [is_palindrome : Opt({<<"t", "r", "u", "e">>, <<"f", "a", "l", "s", "e">>}),
            min_length : Opt({<<"1">>, <<"2", "b">>}),
            max_length : Opt({<<"1", ".", "5">>, <<>>}),
            word_count : Opt({<<"1">>}),
            contains_character : Opt({<<"e">>, <<"E">>, <<".">>, <<"e", "e">>}),
            query : {Absent}] :
        Cardinality(present(q)) <= 2}

PostRequest(json) ==
    [method |-> "POST", path |-> <<STRINGS>>, query |-> NoQuery, body |-> [value |-> json]]

\* GET or DELETE /strings/<value>, the value URI-encoded by the client
ValueRequest(method, value) ==
    [method |-> method, path |-> <<STRINGS, encodeURIComponent(value)>>,
     query |-> NoQuery, body |-> NoBody]

ListRequest(q) ==
    [method |-> "GET", path |-> <<STRINGS>>, query |-> q, body |-> NoBody]

\* the texts of natural-language requests: palindromic, longer than 1,
\* contains e, xyz
Texts ==
    {<<"p", "a", "l", "i", "n", "d", "r", "o", "m", "i", "c">>,
     <<"l", "o", "n", "g", "e", "r", " ", "t", "h", "a", "n", " ", "1">>,
     <<"c", "o", "n", "t", "a", "i", "n", "s", " ", "e">>,
     <<"x", "y", "z">>}

\* GET /strings/filter-by-natural-language?query=<text>, or without a query
NaturalLanguageRequest(text) ==
    [method |-> "GET", path |-> <<STRINGS, FILTER_BY_NATURAL_LANGUAGE>>,
     query |-> [NoQuery EXCEPT !.query = text], body |-> NoBody]

NaturalLanguageRequests ==
    {NaturalLanguageRequest(t) : t \in {Absent} \cup {<<x>> : x \in Texts}}

Requests ==
    {PostRequest(json) : json \in JsonValues}
        \cup {ValueRequest(m, v) : m \in {"GET", "DELETE"}, v \in Values}
        \cup {ListRequest(q) : q \in Queries}
        \cup NaturalLanguageRequests
        \cup {[method |-> "GET", path |-> <<HEALTH>>, query |-> NoQuery, body |-> NoBody]}

\* the requests each handler is handed
Routed ==
    [h \in {routes[i].handler : i \in 1..Len(routes)} \cup {"NoRoute"} |->
        {req \in Requests : Route(req) = h}]

(***************************************************************************)
(* The handlers.                                                           *)
(***************************************************************************)
Idle == [pc |-> "idle", value |-> <<>>, existing |-> FALSE, created_at |-> 0]

\* newString with the raw value as _id
newStringIdFromRequest(value, now) ==
    [_id |-> value, value |-> value, properties |-> computeProperties(value),
     created_at |-> now]

\* new StringModel({ _id: sha256Hash, value, properties }), created_at
\* defaulting to Date.now
newString(value, now) ==
    LET properties == computeProperties(value)
    IN  [_id |-> properties.sha256_hash, value |-> value, properties |-> properties,
         created_at |-> now]

PostResponse(t, status, body) ==
    [Response("PostStrings", PostRequest([type |-> "string", str |-> t.value]), status, body)
        EXCEPT !.existing = t.existing]

\* POST /strings without the typeof check: computeProperties is handed the
\* number and crypto's update throws
PostStringsWithoutTypeCheck(c, req) ==
    /\ last = NoResponse
    /\ Route(req) = "PostStrings"
    /\ task[c].pc = "idle"
    /\ \A b \in Conn : b < c => task[b].pc # "idle"   \* connections are alike
    /\ LET value == req.body.value
       IN  IF value.type \in {"undefined", "null"}
           THEN /\ last' = Response("PostStrings", req, 400,
                                    errorJson("Missing \"value\" field in request body"))
                /\ task' = task
           ELSE IF value.type # "string"
           THEN /\ last' = InternalServerError("PostStrings", req)
                /\ task' = task
           ELSE /\ task' = [task EXCEPT ![c] =
                              [pc |-> "findById", value |-> value.str,
                               existing |-> findById(StringModel,
                                              computeProperties(value.str).sha256_hash) # {},
                               created_at |-> 0]]
                /\ last' = NoResponse
    /\ UNCHANGED <<StringModel, clock, call>>

\* POST /strings up to its first await: the checks of the body,
\* computeProperties and the findById it issues
PostStrings(c, req) ==
    /\ last = NoResponse
    /\ Route(req) = "PostStrings"
    /\ task[c].pc = "idle"
    /\ \A b \in Conn : b < c => task[b].pc # "idle"   \* connections are alike
    /\ LET value == req.body.value
       IN  IF value.type \in {"undefined", "null"}
           THEN /\ last' = Response("PostStrings", req, 400,
                                    errorJson("Missing \"value\" field in request body"))
                /\ task' = task
           ELSE IF value.type # "string"
           THEN /\ last' = Response("PostStrings", req, 422,
                                    errorJson("Invalid data type for \"value\" (must be string)"))
                /\ task' = task
           ELSE /\ task' = [task EXCEPT ![c] =
                              [pc |-> "findById", value |-> value.str,
                               existing |-> findById(StringModel,
                                              computeProperties(value.str).sha256_hash) # {},
                               created_at |-> 0]]
                /\ last' = NoResponse
    /\ UNCHANGED <<StringModel, clock, call>>

\* POST /strings between its awaits: the answer of findById is in, the
\* document is built, created_at being Date.now() (no earlier than the reading
\* before it), and its save issued
PostStringsExisting(c) ==
    /\ last = NoResponse
    /\ task[c].pc = "findById"
    /\ IF task[c].existing
       THEN /\ last' = PostResponse(task[c], 409,
                                    errorJson("String already exists in the system"))
            /\ task' = [task EXCEPT ![c] = Idle]
            /\ clock' = clock
       ELSE /\ \E now \in clock..MaxClock :
                  /\ clock' = now
                  /\ task' = [task EXCEPT ![c].pc = "save", ![c].created_at = now]
            /\ last' = NoResponse
    /\ UNCHANGED <<StringModel, call>>

\* POST /strings saving with an upsert: a document with the same _id or value
\* is replaced by the new one
PostStringsSaveUpsert(c) ==
    /\ last = NoResponse
    /\ task[c].pc = "save"
    /\ LET newDoc == newString(task[c].value, task[c].created_at)
           outcome == save(StringModel, newDoc)
           kept == {d \in StringModel : d._id # newDoc._id /\ d.value # newDoc.value}
       IN  IF outcome = "ValidationError"
           THEN /\ StringModel' = StringModel
                /\ last' = PostResponse(task[c], 500, errorJson("Internal server error"))
           ELSE /\ Cardinality(kept) < MaxDocs
                /\ StringModel' = kept \cup {newDoc}
                /\ last' = PostResponse(task[c], 201, recordJson(newDoc))
    /\ task' = [task EXCEPT ![c] = Idle]
    /\ UNCHANGED <<clock, call>>

\* POST /strings after its second await: the save has been carried out
PostStringsSave(c) ==
    /\ last = NoResponse
    /\ task[c].pc = "save"
    /\ LET newDoc == newString(task[c].value, task[c].created_at)
           outcome == save(StringModel, newDoc)
       IN  IF outcome = "ok"
           THEN /\ Cardinality(StringModel) < MaxDocs
                /\ StringModel' = StringModel \cup {newDoc}
                /\ last' = PostResponse(task[c], 201, recordJson(newDoc))
           ELSE /\ StringModel' = StringModel
                /\ last' = PostResponse(task[c], 500, errorJson("Internal server error"))
    /\ task' = [task EXCEPT ![c] = Idle]
    /\ UNCHANGED <<clock, call>>

\* GET /strings/:string_value
GetStringByValue(req) ==
    /\ last = NoResponse
    /\ Route(req) = "GetStringByValue"
    /\ LET string_value == paramOf(req)
           decodedValue == decodeURIComponent(string_value)
           stringDoc == findOne(StringModel, decodedValue)
       IN  last' =
             IF decodedValue = URIError THEN InternalServerError("GetStringByValue", req)
             ELSE IF stringDoc = {}
             THEN Response("GetStringByValue", req, 404,
                           errorJson("String does not exist in the system"))
             ELSE Response("GetStringByValue", req, 200,
                           recordJson(CHOOSE d \in stringDoc : TRUE))
    /\ UNCHANGED <<StringModel, clock, task, call>>

\* DELETE /strings/:string_value
DeleteStringByValue(req) ==
    /\ last = NoResponse
    /\ Route(req) = "DeleteStringByValue"
    /\ LET string_value == paramOf(req)
           decodedValue == decodeURIComponent(string_value)
           result == findOne(StringModel, decodedValue)
       IN  IF decodedValue = URIError
           THEN /\ last' = InternalServerError("DeleteStringByValue", req)
                /\ StringModel' = StringModel
           ELSE IF result = {}
           THEN /\ last' = Response("DeleteStringByValue", req, 404,
                                    errorJson("String does not exist in the system"))
                /\ StringModel' = StringModel
           ELSE /\ last' = Response("DeleteStringByValue", req, 204, errorJson(""))
                /\ StringModel' = StringModel \ {CHOOSE d \in result : TRUE}
    /\ UNCHANGED <<clock, task, call>>

NoFilters ==
    [is_palindrome |-> Absent, min_length |-> Absent, max_length |-> Absent,
     word_count |-> Absent, contains_character |-> Absent]

\* GET /strings from req.query to the find: the query document and
\* filtersApplied, or the message of the 400 response
structuredQuery(q) ==
    LET isPalin == q.is_palindrome = <<<<"t", "r", "u", "e">>>>
        minLen == IF q.min_length = Absent THEN NaN ELSE parseInt(q.min_length[1])
        maxLen == IF q.max_length = Absent THEN NaN ELSE parseInt(q.max_length[1])
        wc == IF q.word_count = Absent THEN NaN ELSE parseInt(q.word_count[1])
        bad(message) == [error |-> message, query |-> EmptyQuery, filtersApplied |-> NoFilters]
    IN  IF q.min_length # Absent /\ isNaN(minLen) THEN bad("Invalid value for min_length")
        ELSE IF q.max_length # Absent /\ isNaN(maxLen) THEN bad("Invalid value for max_length")
        ELSE IF q.word_count # Absent /\ isNaN(wc) THEN bad("Invalid value for word_count")
        ELSE IF q.contains_character # Absent /\ Len(q.contains_character[1]) # 1
        THEN bad("contains_character must be a single character")
        ELSE [error |-> "",
              query |->
                [is_palindrome |-> IF q.is_palindrome = Absent THEN Absent ELSE <<isPalin>>,
                 gte |-> IF q.min_length = Absent THEN Absent ELSE <<minLen.n>>,
                 lte |-> IF q.max_length = Absent THEN Absent ELSE <<maxLen.n>>,
                 word_count |-> IF q.word_count = Absent THEN Absent ELSE <<wc.n>>,
                 character |-> IF q.contains_character = Absent THEN Absent
                               ELSE <<frequencyPath(q.contains_character[1])>>],
              filtersApplied |->
                [is_palindrome |-> IF q.is_palindrome = Absent THEN Absent ELSE <<isPalin>>,
                 min_length |-> IF q.min_length = Absent THEN Absent ELSE <<minLen.n>>,
                 max_length |-> IF q.max_length = Absent THEN Absent ELSE <<maxLen.n>>,
                 word_count |-> IF q.word_count = Absent THEN Absent ELSE <<wc.n>>,
                 contains_character |-> q.contains_character]]

\* GET /strings
GetStrings(req) ==
    /\ last = NoResponse
    /\ Route(req) = "GetStrings"
    /\ LET built == structuredQuery(req.query)
       IN  IF built.error # ""
           THEN last' = Response("GetStrings", req, 400, errorJson(built.error))
           ELSE \E scan \in scanOrders(find(StringModel, built.query)) :
                  LET data == dataJson(sortByCreatedAtDesc(scan))
                  IN  last' = Response("GetStrings", req, 200,
                                       [data |-> data, count |-> Len(data),
                                        filters_applied |-> built.filtersApplied])
    /\ UNCHANGED <<StringModel, clock, task, call>>

\* GET /health
GetHealth(req) ==
    /\ last = NoResponse
    /\ Route(req) = "GetHealth"
    /\ last' = Response("GetHealth", req, 200, [status |-> "healthy"])
    /\ UNCHANGED <<StringModel, clock, task, call>>

\* no route matches: Express answers 404 itself
NoRoute(req) ==
    /\ last = NoResponse
    /\ Route(req) = "NoRoute"
    /\ last' = Response("NoRoute", req, 404, errorJson("Cannot " \o req.method))
    /\ UNCHANGED <<StringModel, clock, task, call>>

(***************************************************************************)
(* parseNaturalLanguage.                                                   *)
(***************************************************************************)
\* the literal texts of the patterns
WORD_LITERAL ==
    <<"w", "o", "r", "d">>

CONTAIN_LITERAL ==
    <<"c", "o", "n", "t", "a", "i", "n">>

ING_LITERAL ==
    <<"i", "n", "g">>

S_LITERAL ==
    <<"s">>

THE_LITERAL ==
    <<"t", "h", "e">>

LETTER_LITERAL ==
    <<"l", "e", "t", "t", "e", "r">>

LONGER_THAN_LITERAL ==
    <<"l", "o", "n", "g", "e", "r", " ", "t", "h", "a", "n", " ">>

SHORTER_THAN_LITERAL ==
    <<"s", "h", "o", "r", "t", "e", "r", " ", "t", "h", "a", "n", " ">>

SINGLE_WORD_LITERAL ==
    <<"s", "i", "n", "g", "l", "e", " ", "w", "o", "r", "d">>

PALINDROM_LITERAL ==
    <<"p", "a", "l", "i", "n", "d", "r", "o", "m">>

FIRST_VOWEL_LITERAL ==
    <<"f", "i", "r", "s", "t", " ", "v", "o", "w", "e", "l">>

\* whether lit occurs in text at position i
startsWithAt(text, i, lit) ==
    i + Len(lit) - 1 <= Len(text) /\ SubSeq(text, i, i + Len(lit) - 1) = lit

\* String.prototype.includes
includes(text, lit) == \E i \in 1..Len(text) + 1 : startsWithAt(text, i, lit)

RECURSIVE afterWhitespace(_, _)
\* the position after the run of white space that starts at i (\s+ and \s*)
afterWhitespace(text, i) ==
    IF i <= Len(text) /\ IsWhitespace(text[i]) THEN afterWhitespace(text, i + 1) ELSE i

RECURSIVE afterDigits(_, _)
\* the position after the run of digits that starts at i (\d+ and \d*)
afterDigits(text, i) ==
    IF i <= Len(text) /\ IsDigit(text[i]) THEN afterDigits(text, i + 1) ELSE i

Leftmost(S) == CHOOSE i \in S : \A j \in S : i <= j

\* text.match(/(\d+)\s+word/): <<capture>>, or <<>> for null
matchWordCount(text) ==
    LET starts == {i \in 1..Len(text) :
                      /\ IsDigit(text[i])
                      /\ afterWhitespace(text, afterDigits(text, i)) > afterDigits(text, i)
                      /\ startsWithAt(text, afterWhitespace(text, afterDigits(text, i)),
                                      WORD_LITERAL)}
    IN  IF starts = {} THEN <<>>
        ELSE <<SubSeq(text, Leftmost(starts), afterDigits(text, Leftmost(starts)) - 1)>>

\* text.match(/longer than (\d+)/) and text.match(/shorter than (\d+)/), lit
\* being the literal before the digits: <<capture>>, or <<>> for null
matchThan(text, lit) ==
    LET starts == {i \in 1..Len(text) :
                      /\ startsWithAt(text, i, lit)
                      /\ afterDigits(text, i + Len(lit)) > i + Len(lit)}
    IN  IF starts = {} THEN <<>>
        ELSE <<SubSeq(text, Leftmost(starts) + Len(lit),
                      afterDigits(text, Leftmost(starts) + Len(lit)) - 1)>>

\* the position after an optional group (?:lit\s+)? at i, taken or skipped
afterOptionalWord(text, i, lit, taken) ==
    IF ~taken THEN i
    ELSE IF startsWithAt(text, i, lit)
            /\ afterWhitespace(text, i + Len(lit)) > i + Len(lit)
    THEN afterWhitespace(text, i + Len(lit))
    ELSE 0

\* the position of the captured [a-z] when /contain(?:ing|s)?\s+(?:the\s+)?
\* (?:letter\s+)?([a-z])/ is matched at i with the given choices, 0 when
\* these choices do not match
containsAt(text, i, suffix, the, letter) ==
    IF ~(startsWithAt(text, i, CONTAIN_LITERAL)
            /\ startsWithAt(text, i + Len(CONTAIN_LITERAL), suffix))
    THEN 0
    ELSE LET p1 == i + Len(CONTAIN_LITERAL) + Len(suffix)
             p2 == afterWhitespace(text, p1)
             p3 == IF p2 > p1 THEN afterOptionalWord(text, p2, THE_LITERAL, the) ELSE 0
             p4 == IF p3 > 0 THEN afterOptionalWord(text, p3, LETTER_LITERAL, letter) ELSE 0
         IN  IF p4 > 0 /\ p4 <= Len(text) /\ text[p4] \in ToSet(LowerCase) THEN p4 ELSE 0

\* the choices of the optional parts in the order the matcher tries them
ContainsChoices ==
    << <<ING_LITERAL, TRUE, TRUE>>, <<ING_LITERAL, TRUE, FALSE>>,
       <<ING_LITERAL, FALSE, TRUE>>, <<ING_LITERAL, FALSE, FALSE>>,
       <<S_LITERAL, TRUE, TRUE>>, <<S_LITERAL, TRUE, FALSE>>,
       <<S_LITERAL, FALSE, TRUE>>, <<S_LITERAL, FALSE, FALSE>>,
       <<(<<>>), TRUE, TRUE>>, <<(<<>>), TRUE, FALSE>>,
       <<(<<>>), FALSE, TRUE>>, <<(<<>>), FALSE, FALSE>> >>

\* text.match(/contain(?:ing|s)?\s+(?:the\s+)?(?:letter\s+)?([a-z])/):
\* <<capture>>, or <<>> for null
matchContains(text) ==
    LET at(i, k) == containsAt(text, i, ContainsChoices[k][1], ContainsChoices[k][2],
                               ContainsChoices[k][3])
        starts == {i \in 1..Len(text) : \E k \in 1..Len(ContainsChoices) : at(i, k) > 0}
    IN  IF starts = {} THEN <<>>
        ELSE LET i == Leftmost(starts)
                 k == Leftmost({n \in 1..Len(ContainsChoices) : at(i, n) > 0})
             IN  <<SubSeq(text, at(i, k), at(i, k))>>

\* parseNaturalLanguage with one of its statements changed: "rule2Always"
\* runs the word pattern after, not instead of, the "single word" test;
\* "rule6Last" runs the contain pattern after the "first vowel" test;
\* "minLengthIsN" leaves out the + 1 of min_length
parseNaturalLanguageVariant(query, variant) ==
    LET lowerQuery == toLowerCase(query)
        wordCountMatch == matchWordCount(lowerQuery)
        longerMatch == matchThan(lowerQuery, LONGER_THAN_LITERAL)
        shorterMatch == matchThan(lowerQuery, SHORTER_THAN_LITERAL)
        containsMatch == matchContains(lowerQuery)
        singleWord == includes(lowerQuery, SINGLE_WORD_LITERAL)
        firstVowel == includes(lowerQuery, FIRST_VOWEL_LITERAL)
    IN  [word_count |->
            IF singleWord /\ ~(variant = "rule2Always" /\ wordCountMatch # <<>>) THEN <<1>>
            ELSE IF wordCountMatch # <<>> THEN <<parseInt(wordCountMatch[1]).n>>
            ELSE Absent,
         is_palindrome |->
            IF includes(lowerQuery, PALINDROM_LITERAL) THEN <<TRUE>> ELSE Absent,
         min_length |->
            IF longerMatch # <<>>
            THEN <<parseInt(longerMatch[1]).n + (IF variant = "minLengthIsN" THEN 0 ELSE 1)>>
            ELSE Absent,
         max_length |->
            IF shorterMatch # <<>> THEN <<parseInt(shorterMatch[1]).n - 1>> ELSE Absent,
         contains_character |->
            IF firstVowel /\ ~(variant = "rule6Last" /\ containsMatch # <<>>)
            THEN <<(<<"a">>)>>
            ELSE IF containsMatch # <<>> THEN <<containsMatch[1]>>
            ELSE Absent]

parseNaturalLanguageRule2Always(query) == parseNaturalLanguageVariant(query, "rule2Always")

parseNaturalLanguageRule6Last(query) == parseNaturalLanguageVariant(query, "rule6Last")

parseNaturalLanguageMinLengthIsN(query) == parseNaturalLanguageVariant(query, "minLengthIsN")

\* the filters object: a member is <<>> while it is not set
parseNaturalLanguage(query) ==
    LET lowerQuery == toLowerCase(query)
        wordCountMatch == matchWordCount(lowerQuery)
        longerMatch == matchThan(lowerQuery, LONGER_THAN_LITERAL)
        shorterMatch == matchThan(lowerQuery, SHORTER_THAN_LITERAL)
        containsMatch == matchContains(lowerQuery)
    IN  [word_count |->
            IF includes(lowerQuery, SINGLE_WORD_LITERAL) THEN <<1>>
            ELSE IF wordCountMatch # <<>> THEN <<parseInt(wordCountMatch[1]).n>>
            ELSE Absent,
         is_palindrome |->
            IF includes(lowerQuery, PALINDROM_LITERAL) THEN <<TRUE>> ELSE Absent,
         min_length |->
            IF longerMatch # <<>> THEN <<parseInt(longerMatch[1]).n + 1>> ELSE Absent,
         max_length |->
            IF shorterMatch # <<>> THEN <<parseInt(shorterMatch[1]).n - 1>> ELSE Absent,
         contains_character |->
            IF includes(lowerQuery, FIRST_VOWEL_LITERAL) THEN <<(<<"a">>)>>
            ELSE IF containsMatch # <<>> THEN <<containsMatch[1]>>
            ELSE Absent]

\* Object.keys(parsedFilters)
keysOf(filters) == {f \in DOMAIN filters : filters[f] # Absent}

\* GET /strings/filter-by-natural-language from parsedFilters to the find: the
\* query document
naturalLanguageQuery(parsedFilters) ==
    [is_palindrome |-> parsedFilters.is_palindrome,
     word_count |-> parsedFilters.word_count,
     gte |-> parsedFilters.min_length,
     lte |-> parsedFilters.max_length,
     character |-> IF parsedFilters.contains_character = Absent THEN Absent
                   ELSE <<frequencyPath(parsedFilters.contains_character[1])>>]

\* GET /strings/filter-by-natural-language, the handler itself
GetStringsByNaturalLanguage(req) ==
    /\ last = NoResponse
    /\ LET nlQuery == req.query.query
           parsedFilters == parseNaturalLanguage(nlQuery[1])
       IN  IF nlQuery = Absent \/ nlQuery[1] = <<>>
           THEN last' = Response("GetStringsByNaturalLanguage", req, 400,
                                 errorJson("Missing \"query\" parameter"))
           ELSE IF keysOf(parsedFilters) = {}
           THEN last' = Response("GetStringsByNaturalLanguage", req, 400,
                                 errorJson("Unable to parse natural language query"))
           ELSE \E scan \in scanOrders(find(StringModel, naturalLanguageQuery(parsedFilters))) :
                  LET data == dataJson(sortByCreatedAtDesc(scan))
                  IN  last' = Response("GetStringsByNaturalLanguage", req, 200,
                                       [data |-> data, count |-> Len(data),
                                        interpreted_query |->
                                          [original |-> nlQuery[1],
                                           parsed_filters |-> parsedFilters]])
    /\ UNCHANGED <<StringModel, clock, task, call>>

\* no helper function is called on its own
NoCall == [fn |-> "", arg |-> <<>>, returned |-> FALSE, ret |-> <<>>]

\* the response of the step just taken is on the wire; the record of the step
\* is cleared before the next step is taken
Sent ==
    /\ last # NoResponse
    /\ last' = NoResponse
    /\ UNCHANGED <<StringModel, clock, task, call>>

Init ==
    /\ StringModel = {}
    /\ clock = 0
    /\ task = [c \in Conn |-> Idle]
    /\ last = NoResponse
    /\ call = NoCall

Next ==
    \/ \E c \in Conn, req \in Routed["PostStrings"] : PostStrings(c, req)
    \/ \E c \in Conn : PostStringsExisting(c)
    \/ \E c \in Conn : PostStringsSave(c)
    \/ \E req \in Routed["GetStringByValue"] : GetStringByValue(req)
    \/ \E req \in Routed["GetStrings"] : GetStrings(req)
    \/ \E req \in Routed["DeleteStringByValue"] : DeleteStringByValue(req)
    \/ \E req \in Routed["GetHealth"] : GetHealth(req)
    \/ \E req \in Routed["NoRoute"] : NoRoute(req)
    \/ Sent

\* The service as Express runs it.  GetStringsByNaturalLanguage is no disjunct
\* of Next: its route is registered after /strings/:string_value, which
\* matches every path its own pattern matches, so no request is handed to it
\* (Routed["GetStringsByNaturalLanguage"] is empty).
Spec == Init /\ [][Next]_vars

\* The handlers taken one by one, the natural-language handler called with
\* the requests meant for it whatever the router does with them.
NextHandlers ==
    \/ Next
    \/ \E req \in NaturalLanguageRequests : GetStringsByNaturalLanguage(req)

SpecHandlers == Init /\ [][NextHandlers]_vars

(***************************************************************************)
(* Create, get and delete on values with characters that are escaped in a  *)
(* path.                                                                   *)
(***************************************************************************)
\* the values: "e", "%65", "/" and a space
RawValues == {<<"e">>, <<"%", "6", "5">>, <<"/">>, <<" ">>}

\* the creates, gets and deletes of these values
RawRequests ==
    {PostRequest([type |-> "string", str |-> v]) : v \in RawValues}
        \cup {ValueRequest(m, v) : m \in {"GET", "DELETE"}, v \in RawValues}

\* the requests on these values each handler is handed
RawRouted ==
    [h \in {"PostStrings", "GetStringByValue", "DeleteStringByValue"} |->
        {req \in RawRequests : Route(req) = h}]

NextLifecycle ==
    \/ \E c \in Conn, req \in RawRouted["PostStrings"] : PostStrings(c, req)
    \/ \E c \in Conn : PostStringsExisting(c)
    \/ \E c \in Conn : PostStringsSave(c)
    \/ \E req \in RawRouted["GetStringByValue"] : GetStringByValue(req)
    \/ \E req \in RawRouted["DeleteStringByValue"] : DeleteStringByValue(req)
    \/ Sent

SpecLifecycle == Init /\ [][NextLifecycle]_vars

(***************************************************************************)
(* computeProperties called on its own, on every string of at most MaxLen  *)
(* code units.                                                             *)
(***************************************************************************)
MaxLen == 3        \* code units of an analysed string at most

\* the code units the analysed strings are made of: letters in both cases,
\* white space, punctuation and the two halves of a surrogate pair
CodeUnits == {"a", "A", "b", " ", ".", "D83D", "DE00"}

Strings == UNION {[1..n -> CodeUnits] : n \in 0..MaxLen}

InitAnalyzer ==
    /\ StringModel = {}
    /\ clock = 0
    /\ task = [c \in Conn |-> Idle]
    /\ last = NoResponse
    /\ call \in {[fn |-> "computeProperties", arg |-> str, returned |-> FALSE, ret |-> <<>>] :
                    str \in Strings}

\* const properties = computeProperties(value)
ComputeProperties ==
    /\ call.fn = "computeProperties"
    /\ ~call.returned
    /\ call' = [call EXCEPT !.returned = TRUE, !.ret = computeProperties(call.arg)]
    /\ UNCHANGED <<StringModel, clock, task, last>>

NextAnalyzer == ComputeProperties

SpecAnalyzer == InitAnalyzer /\ [][NextAnalyzer]_vars

(***************************************************************************)
(* The natural-language handler from parseNaturalLanguage to the find,     *)
(* called on its own on texts put together from at most MaxParts pieces.   *)
(***************************************************************************)
MaxParts == 2      \* pieces of a query text at most

\* the pieces: single word, 2 word, palindrom, longer than 1, shorter than 0,
\* contains e (with one space and with two), containing the letter z,
\* contain x, first vowel, xyz, a space, 3, CONTAINS THE Q, contains
Fragments ==
    {<<"s", "i", "n", "g", "l", "e", " ", "w", "o", "r", "d">>,
     <<"2", " ", "w", "o", "r", "d">>,
     <<"p", "a", "l", "i", "n", "d", "r", "o", "m">>,
     <<"l", "o", "n", "g", "e", "r", " ", "t", "h", "a", "n", " ", "1">>,
     <<"s", "h", "o", "r", "t", "e", "r", " ", "t", "h", "a", "n", " ", "0">>,
     <<"c", "o", "n", "t", "a", "i", "n", "s", " ", "e">>,
     <<"c", "o", "n", "t", "a", "i", "n", "s", " ", " ", "e">>,
     <<"c", "o", "n", "t", "a", "i", "n", "i", "n", "g", " ", "t", "h", "e",
       " ", "l", "e", "t", "t", "e", "r", " ", "z">>,
     <<"c", "o", "n", "t", "a", "i", "n", " ", "x">>,
     <<"f", "i", "r", "s", "t", " ", "v", "o", "w", "e", "l">>,
     <<"x", "y", "z">>,
     <<" ">>,
     <<"3">>,
     <<"C", "O", "N", "T", "A", "I", "N", "S", " ", "T", "H", "E", " ", "Q">>,
     <<"c", "o", "n", "t", "a", "i", "n", "s", " ">>}

RECURSIVE Concat(_)
Concat(parts) == IF parts = <<>> THEN <<>> ELSE Head(parts) \o Concat(Tail(parts))

\* the texts: never empty, an empty nlQuery being answered before it is parsed
QueryTexts == {Concat(parts) : parts \in UNION {[1..n -> Fragments] : n \in 1..MaxParts}}

\* the handler without the parsed filters check
interpretWithoutCheck(nlQuery) ==
    LET parsedFilters == parseNaturalLanguage(nlQuery)
    IN  [error |-> "", parsed_filters |-> parsedFilters,
         find |-> <<naturalLanguageQuery(parsedFilters)>>]

\* GET /strings/filter-by-natural-language from parseNaturalLanguage(nlQuery)
\* to StringModel.find(dbQuery): the message of the 400 response or none, the
\* parsed filters, and the query documents handed to find
interpret(nlQuery) ==
    LET parsedFilters == parseNaturalLanguage(nlQuery)
    IN  IF keysOf(parsedFilters) = {}
        THEN [error |-> "Unable to parse natural language query",
              parsed_filters |-> parsedFilters, find |-> <<>>]
        ELSE [error |-> "", parsed_filters |-> parsedFilters,
              find |-> <<naturalLanguageQuery(parsedFilters)>>]

InitInterpreter ==
    /\ StringModel = {}
    /\ clock = 0
    /\ task = [c \in Conn |-> Idle]
    /\ last = NoResponse
    /\ call \in {[fn |-> "interpret", arg |-> text, returned |-> FALSE, ret |-> <<>>] :
                    text \in QueryTexts}

Interpret ==
    /\ call.fn = "interpret"
    /\ ~call.returned
    /\ call' = [call EXCEPT !.returned = TRUE, !.ret = interpret(call.arg)]
    /\ UNCHANGED <<StringModel, clock, task, last>>

NextInterpreter == Interpret

SpecInterpreter == InitInterpreter /\ [][NextInterpreter]_vars

(***************************************************************************)
(* The claims.                                                             *)
(***************************************************************************)
valuesIn(coll) == {d.value : d \in coll}

\* the step just taken answered a POST /strings that carried the string v
createdValue(v) ==
    /\ last.handler = "PostStrings"
    /\ last.req = PostRequest([type |-> "string", str |-> v])

\* C1: of two concurrent creates of one value, started while the store does
\* not hold it, one succeeds and the other ends in Conflict (409), not in
\* InternalError: a create whose findById found nothing and that finds the
\* value stored by the other when it saves is answered 409.
C1_ConcurrentCreateConflicts ==
    \A v \in Values \ {<<>>} :
        (/\ createdValue(v)
         /\ ~last.existing
         /\ last.status # 201
         /\ v \in valuesIn(StringModel))
            => last.status = 409

\* C2: in every reachable state no two stored records have the same value.
C2_ValueUnique ==
    \A d1, d2 \in StringModel : d1.value = d2.value => d1 = d2

\* two creates of one value raced, and the store holds the value once
C2_Witness ==
    \E v \in Values :
        /\ createdValue(v)
        /\ ~last.existing
        /\ last.status = 500
        /\ Cardinality({d \in StringModel : d.value = v}) = 1

\* C3: every stored record has id = hash(value) and content hash = id, and
\* the id a create returns is the hash of the value it returns.
C3_IdIsHashOfValue ==
    /\ \A d \in StringModel :
          d._id = sha256Hex(d.value) /\ d.properties.sha256_hash = d._id
    /\ (last.handler = "PostStrings" /\ last.status = 201)
          => /\ last.body.id = sha256Hex(last.body.value)
             /\ last.body.value = last.req.body.value.str

C3_Witness ==
    /\ last.handler = "PostStrings"
    /\ last.status = 201
    /\ \E d \in StringModel : d._id = last.body.id /\ d.value = <<"e", " ", ".">>

\* C4: a create of a value the store holds when the request arrives finds it
\* (existing), is answered Conflict (409) and leaves the store as it was, with
\* exactly one record for the value.
C4_CreateOfStoredValueConflicts ==
    [][\A c \in Conn :
          /\ (task[c].pc = "idle" /\ task'[c].pc = "findById"
                 /\ task'[c].value \in valuesIn(StringModel))
                => task'[c].existing
          /\ (task[c].pc = "findById" /\ task[c].existing /\ task'[c] # task[c])
                => /\ task'[c].pc = "idle"
                   /\ last'.handler = "PostStrings"
                   /\ last'.status = 409
                   /\ StringModel' = StringModel
                   /\ task[c].value \in valuesIn(StringModel)
                         => Cardinality({d \in StringModel' : d.value = task[c].value}) = 1
      ]_vars

C4_Witness ==
    \E v \in Values :
        /\ createdValue(v)
        /\ last.existing
        /\ last.status = 409
        /\ v \in valuesIn(StringModel)

\* C5: for every value v that is not in the store, get(v) and delete(v) fail
\* with NotFound (404).
C5_AbsentValueNotFound ==
    \A v \in Values :
        /\ (/\ last.handler = "GetStringByValue"
            /\ last.req = ValueRequest("GET", v)
            /\ v \notin valuesIn(StringModel))
              => last.status = 404
        /\ (/\ last.handler = "DeleteStringByValue"
            /\ last.req = ValueRequest("DELETE", v)
            /\ last.status # 204)
              => last.status = 404

\* C6: a natural-language list request is answered by the natural-language
\* handler: 200 when a rule fires on its text, never NotFound, never by the
\* get-by-value handler.
C6_NaturalLanguageRequestInterpreted ==
    (last.req \in NaturalLanguageRequests /\ last.handler # "")
        => /\ last.handler = "GetStringsByNaturalLanguage"
           /\ last.status # 404
           /\ (last.req.query.query # Absent
                 /\ keysOf(parseNaturalLanguage(last.req.query.query[1])) # {})
                 => last.status = 200

\* C7: create("") on a store that does not hold the empty string succeeds and
\* stores a record with length 0, is_palindrome true, unique_characters 0,
\* word_count 0 and an empty character_frequency_map.
C7_EmptyStringCreated ==
    (createdValue(<<>>) /\ ~last.existing)
        => /\ last.status = 201
           /\ \E d \in StringModel :
                 /\ d.value = <<>>
                 /\ d.properties.length = 0
                 /\ d.properties.is_palindrome
                 /\ d.properties.unique_characters = 0
                 /\ d.properties.word_count = 0
                 /\ DOMAIN d.properties.character_frequency_map = {}

\* a text that is an integer in its entirety: an optional sign, then digits only
IsIntegerText(text) ==
    LET digits == IF text # <<>> /\ Head(text) \in {"-", "+"} THEN Tail(text) ELSE text
    IN  digits # <<>> /\ \A i \in 1..Len(digits) : IsDigit(digits[i])

\* every present field of a structured filter is well-formed
WellFormedFilter(q) ==
    /\ \A f \in {"min_length", "max_length", "word_count"} :
          q[f] # Absent => IsIntegerText(q[f][1])
    /\ q.contains_character # Absent => Len(q.contains_character[1]) = 1

ValidFilter(q) ==
    /\ WellFormedFilter(q)
    /\ q.is_palindrome # Absent
          => q.is_palindrome[1] \in {<<"t", "r", "u", "e">>, <<"f", "a", "l", "s", "e">>}

\* a record satisfies every present field of a valid structured filter
Satisfies(d, q) ==
    /\ q.is_palindrome # Absent
          => d.properties.is_palindrome = (q.is_palindrome[1] = <<"t", "r", "u", "e">>)
    /\ q.min_length # Absent => parseInt(q.min_length[1]).n <= d.properties.length
    /\ q.max_length # Absent => d.properties.length <= parseInt(q.max_length[1]).n
    /\ q.word_count # Absent => d.properties.word_count = parseInt(q.word_count[1]).n
    /\ q.contains_character # Absent
          => /\ q.contains_character[1] \in DOMAIN d.properties.character_frequency_map
             /\ d.properties.character_frequency_map[q.contains_character[1]] >= 1

\* C8: for every store state and every valid structured filter, the query
\* returns exactly the stored records that satisfy all present fields at once.
C8_QueryReturnsExactlyTheMatches ==
    (last.handler = "GetStrings" /\ ValidFilter(last.req.query))
        => /\ last.status = 200
           /\ ToSet(last.body.data)
                 = {recordJson(d) : d \in {x \in StringModel : Satisfies(x, last.req.query)}}

\* C9: a structured list request is rejected with InvalidFilterValue (400)
\* whenever a present min_length, max_length or word_count is not an integer
\* in its entirety or contains_character is not exactly one character, and is
\* accepted only when every present field is well-formed.
C9_MalformedFilterRejected ==
    last.handler = "GetStrings"
        => (last.status = 400 <=> ~WellFormedFilter(last.req.query))

\* C10: every sequence a query returns, structured or natural-language, is
\* ordered by created_at descending: for positions i < j the i-th created_at
\* is >= the j-th.
C10_ResultsNewestFirst ==
    (last.handler \in {"GetStrings", "GetStringsByNaturalLanguage"} /\ last.status = 200)
        => \A i, j \in 1..Len(last.body.data) :
              i < j => msOfISOString(last.body.data[i].created_at)
                          >= msOfISOString(last.body.data[j].created_at)

\* a query returned two records created at different times
C10_Witness ==
    /\ last.handler = "GetStrings"
    /\ last.status = 200
    /\ Len(last.body.data) = 2
    /\ msOfISOString(last.body.data[1].created_at)
          > msOfISOString(last.body.data[2].created_at)

(***************************************************************************)
(* The analyzer (SpecAnalyzer).                                            *)
(***************************************************************************)
\* computeProperties has returned
analyzed == call.fn = "computeProperties" /\ call.returned

\* the number of Unicode code points of a string of UTF-16 code units: a high
\* surrogate followed by a low surrogate is one code point, every other code
\* unit is one by itself
CodePointCount(str) ==
    Len(str) - Cardinality({i \in 1..Len(str) - 1 :
                              str[i] \in HighSurrogate /\ str[i + 1] \in LowSurrogate})

RECURSIVE SumOfCounts(_)
SumOfCounts(map) ==
    IF DOMAIN map = {} THEN 0
    ELSE LET k == CHOOSE x \in DOMAIN map : TRUE
         IN  map[k] + SumOfCounts([x \in DOMAIN map \ {k} |-> map[x]])

\* C12: for every string s, analyze(s).length is the number of Unicode code
\* points of s, it equals the sum of the counts in character_frequency_map,
\* and unique_characters is the number of keys of character_frequency_map.
C12_LengthCountsCodePoints ==
    analyzed
        => /\ call.ret.length = CodePointCount(call.arg)
           /\ call.ret.length = SumOfCounts(call.ret.character_frequency_map)
           /\ call.ret.unique_characters
                 = Cardinality(DOMAIN call.ret.character_frequency_map)

\* C13: for every string s, is_palindrome is true if and only if the
\* code-point sequence of s, lowercased and with all white space removed,
\* equals its own reversal.
C13_PalindromeLaw ==
    analyzed
        => LET normalized == codePoints(removeWhitespace(toLowerCase(call.arg)))
           IN  call.ret.is_palindrome <=> (normalized = reverse(normalized))

(***************************************************************************)
(* The interpreter (SpecInterpreter).  The rules are stated here on the    *)
(* lowercased text, position by position.                                  *)
(***************************************************************************)
interpreted == call.fn = "interpret" /\ call.returned

\* the text from i on is a run of at least one white space character up to,
\* not including, j
WhitespaceRun(text, i, j) ==
    i < j /\ j <= Len(text) + 1 /\ \A k \in i..j - 1 : IsWhitespace(text[k])

\* rule 2: a digit, white space, "word"
Rule2Fires(text) ==
    \E i, j \in 1..Len(text) :
        IsDigit(text[i]) /\ WhitespaceRun(text, i + 1, j) /\ startsWithAt(text, j, WORD_LITERAL)

\* rules 4 and 5: the literal and a digit after it
ThanFires(text, lit) ==
    \E i \in 1..Len(text) :
        startsWithAt(text, i, lit) /\ i + Len(lit) <= Len(text) /\ IsDigit(text[i + Len(lit)])

\* the position after an optional word and its white space, met at i
AfterOptional(text, i, lit) ==
    {i} \cup {j \in i + Len(lit) + 1..Len(text) + 1 :
                 startsWithAt(text, i, lit) /\ WhitespaceRun(text, i + Len(lit), j)}

\* the letters rule 6 can capture: a lowercase letter after "contain", an
\* optional "s" or "ing", white space, an optional "the" and an optional
\* "letter", each with white space after it
Rule6Letters(text) ==
    {text[p] : p \in
        {p \in 1..Len(text) :
            /\ text[p] \in ToSet(LowerCase)
            /\ \E i \in 1..Len(text), suffix \in {<<>>, S_LITERAL, ING_LITERAL} :
                  /\ startsWithAt(text, i, CONTAIN_LITERAL \o suffix)
                  /\ \E j \in i..Len(text) + 1 :
                        /\ WhitespaceRun(text, i + Len(CONTAIN_LITERAL \o suffix), j)
                        /\ \E k \in AfterOptional(text, j, THE_LITERAL) :
                              p \in AfterOptional(text, k, LETTER_LITERAL)}}

\* at least one of the seven rules fires on the lowercased text
SomeRuleFires(text) ==
    \/ includes(text, SINGLE_WORD_LITERAL)
    \/ Rule2Fires(text)
    \/ includes(text, PALINDROM_LITERAL)
    \/ ThanFires(text, LONGER_THAN_LITERAL)
    \/ ThanFires(text, SHORTER_THAN_LITERAL)
    \/ Rule6Letters(text) # {}
    \/ includes(text, FIRST_VOWEL_LITERAL)

\* C11: interpret(text) fails with UnparsableQuery if and only if none of the
\* seven rules fires on the lowercased text; when a rule fires the result is
\* a filter with at least one field set; no query document goes to the store
\* for an unparsable text.
C11_UnparsableIffNoRuleFires ==
    interpreted
        => /\ (call.ret.error = "Unable to parse natural language query")
                 <=> ~SomeRuleFires(toLowerCase(call.arg))
           /\ call.ret.error \in {"", "Unable to parse natural language query"}
           /\ call.ret.error = "" => keysOf(call.ret.parsed_filters) # {}
           /\ call.ret.error # "" => call.ret.find = <<>>

\* a text on which no rule fires was refused, and nothing went to the store
C11_Witness ==
    /\ interpreted
    /\ call.arg = <<"x", "y", "z">> \o <<"c", "o", "n", "t", "a", "i", "n", "s", " ">>
    /\ call.ret.error = "Unable to parse natural language query"
    /\ call.ret.find = <<>>

(***************************************************************************)
(* Validation (SpecHandlers).                                              *)
(***************************************************************************)
\* C14: a submit with no value (absent or null) fails with MissingField (400)
\* and one whose value is not text with InvalidType (422); these, and every
\* request that ends in InvalidFilterValue or UnparsableQuery (400), leave
\* the store exactly as it was and start no store operation.
C14_ValidationBeforeStore ==
    [][/\ (last'.handler = "PostStrings"
              /\ last'.req.body.value.type \in {"undefined", "null"})
            => /\ last'.status = 400
               /\ last'.body = errorJson("Missing \"value\" field in request body")
       /\ (last'.handler = "PostStrings"
              /\ last'.req.body.value.type \notin {"undefined", "null", "string"})
            => last'.status = 422
       /\ last'.status \in {400, 422}
            => StringModel' = StringModel /\ task' = task
      ]_vars

\* a submit of a number was refused while the store held a record
C14_Witness ==
    /\ last.handler = "PostStrings"
    /\ last.req.body.value.type = "number"
    /\ last.status = 422
    /\ StringModel # {}

(***************************************************************************)
(* Get and delete by value (SpecLifecycle).                                *)
(***************************************************************************)
\* C15: for every stored value v, whatever characters it contains, get(v)
\* returns the record whose value is exactly v and whose id is hash(v); it
\* never ends in NotFound or InternalError.
C15_GetReturnsStoredValue ==
    \A v \in RawValues :
        (/\ last.handler = "GetStringByValue"
         /\ last.req = ValueRequest("GET", v)
         /\ v \in valuesIn(StringModel))
            => /\ last.status = 200
               /\ last.body.value = v
               /\ last.body.id = sha256Hex(v)

(***************************************************************************)
(* Records are immutable (SpecHandlers).                                   *)
(***************************************************************************)
\* C16: a record that exists keeps its id, value, properties and created_at:
\* no step changes a record in place; a step that answers a get or a query
\* leaves the store as it was; every other change of the store is one whole
\* record added by a create answered 201 or one whole record removed by a
\* delete answered 204.
C16_RecordsImmutable ==
    [][/\ \A d \in StringModel, e \in StringModel' :
              (e._id = d._id \/ e.value = d.value) => e = d
       /\ last'.handler \in {"GetStringByValue", "GetStrings", "GetStringsByNaturalLanguage"}
              => StringModel' = StringModel
       /\ \/ StringModel' = StringModel
          \/ /\ last'.handler = "PostStrings"
             /\ last'.status = 201
             /\ \E d \in StringModel' \ StringModel :
                   /\ StringModel' = StringModel \cup {d}
                   /\ last'.body = recordJson(d)
          \/ /\ last'.handler = "DeleteStringByValue"
             /\ last'.status = 204
             /\ \E d \in StringModel : StringModel' = StringModel \ {d}
      ]_vars

\* a delete removed one record and left another, created earlier, as it was
C16_Witness ==
    /\ last.handler = "DeleteStringByValue"
    /\ last.status = 204
    /\ \E d \in StringModel : d.created_at < clock

(***************************************************************************)
(* The life of a record (SpecLifecycle).                                   *)
(***************************************************************************)
\* C17: a delete(v) that succeeds (204) removes the record of v: the store
\* then holds no record with value v or id hash(v); a get(v) or delete(v) on
\* a store without v, a second delete of two concurrent ones included, is
\* answered NotFound (404); a create(v) on a store without v finds nothing
\* (no Conflict), and a create answered 201 returns the id hash(v).
C17_DeleteThenAbsent ==
    [][\A v \in RawValues :
          /\ (/\ last'.handler = "DeleteStringByValue"
              /\ last'.req = ValueRequest("DELETE", v)
              /\ last'.status = 204)
                => /\ v \in valuesIn(StringModel)
                   /\ \A d \in StringModel' : d.value # v /\ d._id # sha256Hex(v)
          /\ (/\ last'.handler \in {"GetStringByValue", "DeleteStringByValue"}
              /\ last'.req \in {ValueRequest("GET", v), ValueRequest("DELETE", v)}
              /\ v \notin valuesIn(StringModel))
                => last'.status = 404
          /\ \A c \in Conn :
                (/\ task[c].pc = "idle"
                 /\ task'[c].pc = "findById"
                 /\ task'[c].value = v
                 /\ v \notin valuesIn(StringModel))
                    => ~task'[c].existing
          /\ (createdValue(v)' /\ last'.status = 201)
                => last'.body.id = sha256Hex(v)
      ]_vars

(***************************************************************************)
(* The rules of the interpreter one by one (SpecInterpreter).              *)
(***************************************************************************)
RECURSIVE DecimalValue(_)
\* the number a text of decimal digits denotes
DecimalValue(digits) ==
    IF digits = <<>> THEN 0
    ELSE DecimalValue(SubSeq(digits, 1, Len(digits) - 1)) * 10
            + digitValue(digits[Len(digits)])

\* text[i..k] is a run of digits that ends at k
DigitsUpTo(text, i, k) ==
    /\ i <= k /\ k <= Len(text)
    /\ \A n \in i..k : IsDigit(text[n])
    /\ k = Len(text) \/ ~IsDigit(text[k + 1])

\* the numbers <digits> of the places where the text matches "<digits> word"
Rule2Numbers(text) ==
    {DecimalValue(SubSeq(text, ik[1], ik[2])) :
        ik \in {x \in (1..Len(text)) \X (1..Len(text)) :
                  /\ DigitsUpTo(text, x[1], x[2])
                  /\ \E j \in 1..Len(text) :
                        WhitespaceRun(text, x[2] + 1, j) /\ startsWithAt(text, j, WORD_LITERAL)}}

\* the numbers N of the places where the text matches the literal and N
ThanNumbers(text, lit) ==
    {DecimalValue(SubSeq(text, ik[1] + Len(lit), ik[2])) :
        ik \in {x \in (1..Len(text)) \X (1..Len(text)) :
                  startsWithAt(text, x[1], lit) /\ DigitsUpTo(text, x[1] + Len(lit), x[2])}}

\* C18: in interpret the word_count field has a single source: when the
\* lowercased text contains "single word", word_count is 1, also when the
\* text matches "<digits> word" with another number; otherwise word_count is
\* the <digits> of such a match, or unset when there is none.
C18_WordCountSingleSource ==
    interpreted
        => LET text == toLowerCase(call.arg)
               word_count == call.ret.parsed_filters.word_count
           IN  IF includes(text, SINGLE_WORD_LITERAL) THEN word_count = <<1>>
               ELSE IF Rule2Numbers(text) = {} THEN word_count = Absent
               ELSE word_count # Absent /\ word_count[1] \in Rule2Numbers(text)

\* "single word2 word": both rules match, word_count is 1
C18_Witness ==
    /\ interpreted
    /\ includes(toLowerCase(call.arg), SINGLE_WORD_LITERAL)
    /\ 2 \in Rule2Numbers(toLowerCase(call.arg))
    /\ call.ret.parsed_filters.word_count = <<1>>

\* C19: whenever the lowercased text contains "first vowel", the filter has
\* contains_character = 'a', whatever letter rule 6 captures from the text;
\* otherwise contains_character is a letter rule 6 captures, or unset when
\* rule 6 does not match.
C19_FirstVowelOverwrites ==
    interpreted
        => LET text == toLowerCase(call.arg)
               contains_character == call.ret.parsed_filters.contains_character
           IN  IF includes(text, FIRST_VOWEL_LITERAL)
               THEN contains_character = <<(<<"a">>)>>
               ELSE IF Rule6Letters(text) = {} THEN contains_character = Absent
               ELSE /\ contains_character # Absent
                    /\ Len(contains_character[1]) = 1
                    /\ contains_character[1][1] \in Rule6Letters(text)

\* "contains efirst vowel": rule 6 captures e, contains_character is a
C19_Witness ==
    /\ interpreted
    /\ includes(toLowerCase(call.arg), FIRST_VOWEL_LITERAL)
    /\ "e" \in Rule6Letters(toLowerCase(call.arg))
    /\ call.ret.parsed_filters.contains_character = <<(<<"a">>)>>

\* the letters of the places where the text matches, as written,
\* contain(s|ing) (the )?(letter )?<single-letter>: "s" or "ing" is required
\* and every space is one space
AfterOptionalAsWritten(text, i, lit) ==
    {i} \cup {j \in {i + Len(lit) + 1} : startsWithAt(text, i, lit \o <<" ">>)}

Rule6LettersAsWritten(text) ==
    {text[p] : p \in
        {p \in 1..Len(text) :
            /\ text[p] \in ToSet(LowerCase)
            /\ \E i \in 1..Len(text), suffix \in {S_LITERAL, ING_LITERAL} :
                  /\ startsWithAt(text, i, CONTAIN_LITERAL \o suffix \o <<" ">>)
                  /\ \E k \in AfterOptionalAsWritten(
                                  text, i + Len(CONTAIN_LITERAL \o suffix) + 1, THE_LITERAL) :
                        p \in AfterOptionalAsWritten(text, k, LETTER_LITERAL)}}

\* the fields of a filter of interpret, contains_character apart, are
\* well-formed: word_count, min_length = N + 1 and max_length = N - 1 are
\* integers, is_palindrome is a boolean
WellFormedParsedFilters(text, filters) ==
    /\ filters.word_count # Absent => filters.word_count[1] \in Int
    /\ filters.min_length # Absent
          => /\ filters.min_length[1] \in Int
             /\ \E N \in ThanNumbers(text, LONGER_THAN_LITERAL) : filters.min_length[1] = N + 1
    /\ filters.max_length # Absent
          => /\ filters.max_length[1] \in Int
             /\ \E N \in ThanNumbers(text, SHORTER_THAN_LITERAL) : filters.max_length[1] = N - 1
    /\ filters.is_palindrome # Absent => filters.is_palindrome[1] \in BOOLEAN
    /\ filters.contains_character # Absent => Len(filters.contains_character[1]) = 1

\* C20, as claimed: every filter interpret produces is well-formed, and
\* contains_character is set by rule 6 only when the text matches
\* contain(s|ing) (the )?(letter )?<single-letter>.
C20_ParsedFilterWellFormedAsWritten ==
    interpreted
        => LET text == toLowerCase(call.arg)
               filters == call.ret.parsed_filters
           IN  /\ WellFormedParsedFilters(text, filters)
               /\ (filters.contains_character # Absent
                      /\ ~includes(text, FIRST_VOWEL_LITERAL))
                     => filters.contains_character[1][1] \in Rule6LettersAsWritten(text)

\* C20, amended: every filter interpret produces is well-formed, and
\* contains_character is set by rule 6 only when the text matches "contain",
\* an optional "s" or "ing", white space, an optional "the" and an optional
\* "letter", each followed by white space, and a lowercase letter.
C20_ParsedFilterWellFormed ==
    interpreted
        => LET text == toLowerCase(call.arg)
               filters == call.ret.parsed_filters
           IN  /\ WellFormedParsedFilters(text, filters)
               /\ (filters.contains_character # Absent
                      /\ ~includes(text, FIRST_VOWEL_LITERAL))
                     => filters.contains_character[1][1] \in Rule6Letters(text)

\* "contain xlonger than 1": rule 6 captured x after a bare "contain", and
\* min_length is 2
C20_Witness ==
    /\ interpreted
    /\ call.ret.parsed_filters.contains_character = <<(<<"x">>)>>
    /\ Rule6LettersAsWritten(toLowerCase(call.arg)) = {}
    /\ call.ret.parsed_filters.min_length = <<2>>

====
